---- MODULE Spec2Model ----
(***************************************************************************)
(* State-machine model of dashboard.py: the module-level load of the CSV   *)
(* (column-name normalisation, required-column check, delivery_time and    *)
(* price coercion, dropna on avg_ratings, slider bounds, app construction) *)
(* and the Dash callback update_dashboard (filtering, dependent dropdown   *)
(* options, KPI counts, top-100 table).                                    *)
(*                                                                         *)
(* Conventions.  Text that the code transforms character by character      *)
(* (column names, price and delivery_time cells) is a tuple of one-        *)
(* character strings; other text is an atomic string.  Ratings are in      *)
(* tenths (48 stands for 4.8).  NaN is the float NaN of a numeric column,  *)
(* NaS the missing value of a text column (an empty cell of a column kept  *)
(* as characters is the empty tuple), None Python's None for a dropdown    *)
(* value and NoRange Python's None for a slider value.                     *)
(* Figures built by plotly are presentation and are kept as a tag only.    *)
(***************************************************************************)
EXTENDS Integers, Sequences, FiniteSets, TLC

VARIABLES
    pc,      \* "start" | "schema_error" (line 24 raised) | "layout_error" (line 126
             \* raised) | "ready" (the app serves callbacks)
    csv,     \* the CSV file: [header |-> raw column names, rows |-> raw cells]
    df,      \* the module-level DataFrame: [columns |-> Seq, rows |-> Seq([index, vals])]
    error,   \* the list carried by the ValueError of line 24, <<>> when none
    limits,  \* [rating_min, rating_max, price_min, price_max] of lines 41-42
    app,     \* the Dash app and the data-dependent parts of its layout, NoApp before line 47
    kind,    \* tie order of the build's default (quicksort) sort_values
    inp,     \* arguments of the last update_dashboard call, NoCall before the first
    data,    \* the local frame `data` of the last call at line 230
    out,     \* the value returned by the last call
    seen     \* history: one earlier call, [inp, data, out, others], NoCall when none is kept

vars == <<pc, csv, df, error, limits, app, kind, inp, data, out, seen>>

\* ------------------------------------------------------------------ values

NaN == -1
NaS == "<NA>"
None == "None"
NoRange == <<>>
NoFrame == [columns |-> <<>>, rows |-> <<>>]
NoApp == [constructed |-> FALSE]
NoLimits == [set |-> FALSE]
NoCall == [called |-> FALSE]

Range(s) == {s[i] : i \in 1..Len(s)}

Min2(a, b) == IF a <= b THEN a ELSE b

SetMax(S) == CHOOSE m \in S : \A x \in S : x <= m

SetMin(S) == CHOOSE m \in S : \A x \in S : m <= x

\* ------------------------------------------------------------------ str methods

UpperCase == <<"A","B","C","D","E","F","G","H","I","J","K","L","M",
               "N","O","P","Q","R","S","T","U","V","W","X","Y","Z">>

LowerCase == <<"a","b","c","d","e","f","g","h","i","j","k","l","m",
               "n","o","p","q","r","s","t","u","v","w","x","y","z">>

Digits == <<"0","1","2","3","4","5","6","7","8","9">>

Whitespace == {" ", "\t"}

IsDigit(c) == \E i \in 1..Len(Digits) : Digits[i] = c

DigitVal(c) == (CHOOSE i \in 1..Len(Digits) : Digits[i] = c) - 1

\* str.lower() on one character
LowerChar(c) ==
    IF \E i \in 1..Len(UpperCase) : UpperCase[i] = c
    THEN LowerCase[CHOOSE i \in 1..Len(UpperCase) : UpperCase[i] = c]
    ELSE c

\* str.strip(): leading and trailing whitespace removed
RECURSIVE LStrip(_)
LStrip(s) ==
    IF s # <<>> /\ Head(s) \in Whitespace THEN LStrip(Tail(s)) ELSE s

RECURSIVE RStrip(_)
RStrip(s) ==
    IF s # <<>> /\ s[Len(s)] \in Whitespace
    THEN RStrip(SubSeq(s, 1, Len(s) - 1))
    ELSE s

Strip(s) == RStrip(LStrip(s))

Lower(s) == [i \in 1..Len(s) |-> LowerChar(s[i])]

\* str.replace(" ", "_")
ReplaceSpace(s) == [i \in 1..Len(s) |-> IF s[i] = " " THEN "_" ELSE s[i]]

RECURSIVE Join(_)
Join(s) == IF s = <<>> THEN "" ELSE Head(s) \o Join(Tail(s))

\* df.columns.str.strip().str.lower().str.replace(" ", "_") on one name
CleanName(s) == Join(ReplaceSpace(Lower(Strip(s))))

\* ------------------------------------------------------------------ cell coercion

RECURSIVE DigitsValue(_, _)
DigitsValue(s, acc) ==
    IF s = <<>> THEN acc ELSE DigitsValue(Tail(s), 10 * acc + DigitVal(Head(s)))

\* the leading run of digits of s
RECURSIVE DigitRun(_)
DigitRun(s) ==
    IF s # <<>> /\ IsDigit(Head(s)) THEN <<Head(s)>> \o DigitRun(Tail(s)) ELSE <<>>

\* .astype(str).str.extract(r"(\d+)").astype(float): the first run of digits, NaN
\* when the text holds no digit (an empty cell is read as missing and becomes the
\* text "nan", which holds none)
RECURSIVE ExtractDigits(_)
ExtractDigits(s) ==
    IF s = <<>> THEN NaN
    ELSE IF IsDigit(Head(s)) THEN DigitsValue(DigitRun(s), 0)
    ELSE ExtractDigits(Tail(s))

\* pd.to_numeric(errors="coerce") on a cell: a digit string parses (surrounding
\* whitespace allowed), anything else and an empty (missing) cell give NaN
ToNumeric(s) ==
    LET t == Strip(s)
    IN  IF t # <<>> /\ \A i \in 1..Len(t) : IsDigit(t[i])
        THEN DigitsValue(t, 0)
        ELSE NaN

\* ------------------------------------------------------------------ DataFrame

\* position of column c in frame d
Col(d, c) == CHOOSE i \in 1..Len(d.columns) : d.columns[i] = c

\* the cell of row r of frame d in column c
Cell(d, r, c) == r.vals[Col(d, c)]

\* d[mask]: the rows of d whose mask is True, in their order, index labels kept;
\* the mask is given by the set of the rows it keeps
Mask(d, kept) == [d EXCEPT !.rows = SelectSeq(d.rows, LAMBDA r : r \in kept)]

\* the values of column c, missing ones excluded (dropna)
Values(d, c, na) == {Cell(d, d.rows[i], c) : i \in 1..Len(d.rows)} \ {na}

\* Series.nunique(): the number of distinct non-missing values
NUnique(d, c, na) == Cardinality(Values(d, c, na))

\* float(Series.min()), float(Series.max()): NaN values are skipped, and the result
\* is NaN when nothing is left
ColMin(d, c) == IF Values(d, c, NaN) = {} THEN NaN ELSE SetMin(Values(d, c, NaN))

ColMax(d, c) == IF Values(d, c, NaN) = {} THEN NaN ELSE SetMax(Values(d, c, NaN))

\* Python's order on the text values of the model (code-point order: upper case
\* before lower case)
StrOrder == <<"A", "B", "Veg", "non", "x", "y">>

StrLess(a, b) ==
    (CHOOSE i \in 1..Len(StrOrder) : StrOrder[i] = a)
        < (CHOOSE i \in 1..Len(StrOrder) : StrOrder[i] = b)

\* sorted(values): the ascending list of a set of text values
RECURSIVE Sorted(_)
Sorted(S) ==
    IF S = {} THEN <<>>
    ELSE LET m == CHOOSE x \in S : \A y \in S \ {x} : StrLess(x, y)
         IN  <<m>> \o Sorted(S \ {m})

\* ------------------------------------------------------------------ load (lines 11-175)

required_cols ==
    <<"city", "area", "restaurant", "avg_ratings", "price", "delivery_time", "food_type">>

\* pd.read_csv: the header as read, every row labelled 0, 1, 2, ...
ReadCsv(file) ==
    [columns |-> file.header,
     rows |-> [i \in 1..Len(file.rows) |-> [index |-> i - 1, vals |-> file.rows[i]]]]

\* df.columns = df.columns.str.strip().str.lower().str.replace(" ", "_")
CleanColumns(d) ==
    [d EXCEPT !.columns = [i \in 1..Len(d.columns) |-> CleanName(d.columns[i])]]

\* mutant: only the first missing column is reported
MissingFirst(d) ==
    LET all == SelectSeq(required_cols, LAMBDA c : c \notin Range(d.columns))
    IN  IF all = <<>> THEN <<>> ELSE <<Head(all)>>

\* missing = [c for c in required_cols if c not in df.columns]
MissingCols(d) == SelectSeq(required_cols, LAMBDA c : c \notin Range(d.columns))

\* df["delivery_time"] = df["delivery_time"].astype(str).str.extract(r"(\d+)").astype(float)
CleanDeliveryTime(d) ==
    [d EXCEPT !.rows = [i \in 1..Len(d.rows) |->
        [d.rows[i] EXCEPT !.vals[Col(d, "delivery_time")] =
            ExtractDigits(Cell(d, d.rows[i], "delivery_time"))]]]

\* df["price"] = pd.to_numeric(df["price"], errors="coerce")
NumericPrice(d) ==
    [d EXCEPT !.rows = [i \in 1..Len(d.rows) |->
        [d.rows[i] EXCEPT !.vals[Col(d, "price")] = ToNumeric(Cell(d, d.rows[i], "price"))]]]

\* df = df.dropna(subset=["avg_ratings"])
DropNaRatings(d) == Mask(d, {r \in Range(d.rows) : Cell(d, r, "avg_ratings") # NaN})

\* lines 27-38: delivery_time, price, dropna
Normalize(d) == DropNaRatings(NumericPrice(CleanDeliveryTime(d)))

Limits(d) ==
    [rating_min |-> ColMin(d, "avg_ratings"), rating_max |-> ColMax(d, "avg_ratings"),
     price_min |-> ColMin(d, "price"), price_max |-> ColMax(d, "price")]

\* the parts of app.layout computed from the data: the city dropdown options and
\* the initial values of the two sliders
Layout(d, l) ==
    [constructed |-> TRUE,
     city_options |-> Sorted(Values(d, "city", NaS)),
     rating_value |-> <<l.rating_min, l.rating_max>>,
     price_value |-> <<l.price_min, l.price_max>>]

\* int(price_min), int(price_max) of the price slider's marks raise ValueError on
\* NaN, that is when no retained row has a numeric price
MarksRaise(l) == l.price_min = NaN \/ l.price_max = NaN

load ==
    /\ pc = "start"
    /\ LET named == CleanColumns(ReadCsv(csv))
           missing == MissingCols(named)
           d == Normalize(named)
           l == Limits(d)
       IN  IF missing # <<>>
           THEN /\ pc' = "schema_error"
                /\ df' = named
                /\ error' = missing
                /\ UNCHANGED <<limits, app>>
           ELSE /\ df' = d
                /\ limits' = l
                /\ error' = <<>>
                /\ IF MarksRaise(l)
                   THEN pc' = "layout_error" /\ app' = [constructed |-> TRUE]
                   ELSE pc' = "ready" /\ app' = Layout(d, l)
    /\ UNCHANGED <<csv, kind, inp, data, out, seen>>

\* ------------------------------------------------------------------ update_dashboard (lines 208-341)

\* `if city:` -- Python truth of a dropdown value
Truthy(v) == v # None /\ v # ""

\* Series == value, >= and <= : a missing cell compares False
TextEq(a, b) == a # NaS /\ a = b

Ge(a, b) == a # NaN /\ b # NaN /\ a >= b

Le(a, b) == a # NaN /\ b # NaN /\ a <= b

\* mutant: the equality filter applied without `if v:`, so that an absent value
\* matches nothing
ByTextAlways(d, c, v) == Mask(d, {r \in Range(d.rows) : TextEq(Cell(d, r, c), v)})

\* lines 213-218: if v: data = data[data[c] == v]
ByText(d, c, v) ==
    IF Truthy(v) THEN Mask(d, {r \in Range(d.rows) : TextEq(Cell(d, r, c), v)}) ELSE d

\* mutant: the upper bound excluded (< for <=)
ByRangeOpen(d, c, rng) ==
    IF rng # NoRange
    THEN Mask(d, {r \in Range(d.rows) :
            Ge(Cell(d, r, c), rng[1]) /\ Le(Cell(d, r, c), rng[2]) /\ Cell(d, r, c) # rng[2]})
    ELSE d

\* mutant: the lower bound compared the wrong way (<= for >=)
ByRangeLowerFlipped(d, c, rng) ==
    IF rng # NoRange
    THEN Mask(d, {r \in Range(d.rows) : Le(Cell(d, r, c), rng[1]) /\ Le(Cell(d, r, c), rng[2])})
    ELSE d

\* lines 220-230: if rng is not None: data = data[(data[c] >= rng[0]) & (data[c] <= rng[1])]
ByRange(d, c, rng) ==
    IF rng # NoRange
    THEN Mask(d, {r \in Range(d.rows) : Ge(Cell(d, r, c), rng[1]) /\ Le(Cell(d, r, c), rng[2])})
    ELSE d

\* mutant: the area filter left out
FilteredBeforeArea(d, a) ==
    ByRange(
        ByRange(ByText(ByText(d, "city", a.city), "food_type", a.food_type),
                "avg_ratings", a.rating_range),
        "price", a.price_range)

\* lines 210-230: the local frame `data` after all five filters
Filtered(d, a) ==
    ByRange(
        ByRange(
            ByText(ByText(ByText(d, "city", a.city), "area", a.area),
                   "food_type", a.food_type),
            "avg_ratings", a.rating_range),
        "price", a.price_range)

\* mutant: the options taken from the whole dataset df instead of data
OptionsOfDataset(d, c) ==
    LET s == Sorted(Values(df, c, NaS))
    IN  [i \in 1..Len(s) |-> [label |-> s[i], value |-> s[i]]]

\* lines 239-240: [{"label": x, "value": x} for x in sorted(data[c].dropna().unique())]
Options(d, c) ==
    LET s == Sorted(Values(d, c, NaS))
    IN  [i \in 1..Len(s) |-> [label |-> s[i], value |-> s[i]]]

\* lines 243-263: the four KPI cards
KpiCards(d) ==
    <<[title |-> "Cities", value |-> NUnique(d, "city", NaS)],
      [title |-> "Areas", value |-> NUnique(d, "area", NaS)],
      [title |-> "Restaurants", value |-> NUnique(d, "restaurant", NaS)],
      [title |-> "Food Types", value |-> NUnique(d, "food_type", NaS)]>>

Reverse(s) == [i \in 1..Len(s) |-> s[Len(s) + 1 - i]]

\* numpy's quicksort sorts partitions of at most 16 elements by insertion
SmallSort == 16

\* the order the sort leaves among the rows s of one key, in a frame of n rows:
\* sort_values is called with its default kind, quicksort, which pandas and numpy
\* document as not stable.  A frame of at most SmallSort rows is sorted by insertion
\* alone, which keeps equal keys in the order they had; in a longer frame their
\* order is whatever the build's partitioning leaves (k): the order they had or, for
\* one that moves them, its reverse
Ties(s, n, k) == IF n <= SmallSort \/ k = "stable" THEN s ELSE Reverse(s)

RECURSIVE SortDesc(_, _, _, _)
SortDesc(d, c, keys, k) ==
    IF keys = {} THEN <<>>
    ELSE LET m == SetMax(keys)
         IN  Ties(SelectSeq(d.rows, LAMBDA r : Cell(d, r, c) = m), Len(d.rows), k)
                 \o SortDesc(d, c, keys \ {m}, k)

\* mutant: ascending order (ascending=False left out)
SortValuesAscending(d, c, k) ==
    [d EXCEPT !.rows = Reverse(SortDesc(d, c, Values(d, c, NaN), k))
                           \o SelectSeq(d.rows, LAMBDA r : Cell(d, r, c) = NaN)]

\* data.sort_values(c, ascending=False): descending keys, NaN keys last
SortValues(d, c, k) ==
    [d EXCEPT !.rows = SortDesc(d, c, Values(d, c, NaN), k)
                           \o SelectSeq(d.rows, LAMBDA r : Cell(d, r, c) = NaN)]

TopN == 100

\* .head(100)
HeadRows(d) == [d EXCEPT !.rows = SubSeq(d.rows, 1, Min2(TopN, Len(d.rows)))]

\* .to_dict("records"): one column -> cell mapping per row, the index dropped
ToRecords(d) ==
    [i \in 1..Len(d.rows) |-> [c \in Range(d.columns) |-> Cell(d, d.rows[i], c)]]

\* lines 335-339
TableData(d, k) == ToRecords(HeadRows(SortValues(d, "avg_ratings", k)))

\* mutant: no early return for an empty frame
ReturnedUnguarded(d, k) ==
    [area_options |-> Options(d, "area"), food_options |-> Options(d, "food_type"),
     kpi_cards |-> KpiCards(d), figures |-> "charts", table_data |-> TableData(d, k)]

\* the value returned: lines 233-236 when data.empty, line 341 otherwise
Returned(d, k) ==
    IF d.rows = <<>>
    THEN [area_options |-> <<>>, food_options |-> <<>>, kpi_cards |-> <<>>,
          figures |-> "empty_fig", table_data |-> <<>>]
    ELSE [area_options |-> Options(d, "area"), food_options |-> Options(d, "food_type"),
          kpi_cards |-> KpiCards(d), figures |-> "charts", table_data |-> TableData(d, k)]

\* mutant: the filters rebind the module-level df itself
GlobalAfterRebound(d, local) == local

\* the module-level df after a call: line 210 copies it and lines 214-230 rebind
\* only the local name
GlobalAfter(d, local) == d

\* the values the five inputs take in the model
CityInputs == {None, "A"}
AreaInputs == {None, "x"}
FoodInputs == {None, "Veg"}
RatingInputs == {NoRange, <<30, 48>>, <<41, 48>>, <<48, 41>>}
PriceInputs == {NoRange, <<100, 249>>, <<249, 249>>}

MaxActive == 2

ArgNames == {"city", "area", "food_type", "rating_range", "price_range"}

\* the number of inputs of a that hold a value
Active(a) ==
    Cardinality({n \in {"city", "area", "food_type"} : a[n] # None})
        + Cardinality({n \in {"rating_range", "price_range"} : a[n] # NoRange})

\* the number of inputs on which a and b differ
Changed(a, b) == Cardinality({n \in ArgNames : a[n] # b[n]})

Inputs ==
    {a \in [city : CityInputs, area : AreaInputs, food_type : FoodInputs,
            rating_range : RatingInputs, price_range : PriceInputs] :
        Active(a) <= MaxActive}

Call(a) ==
    LET d == Filtered(df, a)
    IN  /\ inp' = a
        /\ data' = d
        /\ out' = Returned(d, kind)
        /\ df' = GlobalAfter(df, d)
        /\ seen' = IF seen = NoCall \/ seen.inp = a THEN seen
                   ELSE [seen EXCEPT !.others = TRUE]
        /\ UNCHANGED <<pc, csv, error, limits, app, kind>>

\* Dash calls the callback when the page loads and then whenever the value of an
\* input changes, each time with the current values of all five inputs
update_dashboard ==
    /\ pc = "ready"
    /\ \E a \in Inputs :
        /\ IF inp = NoCall THEN TRUE ELSE Changed(inp, a) <= 1
        /\ Call(a)

\* history only: keep the last call for comparison with later ones; `others` tells
\* that a call with other inputs has been made since
Remember ==
    /\ pc = "ready"
    /\ inp # NoCall
    /\ seen' = [inp |-> inp, data |-> data, out |-> out, others |-> FALSE]
    /\ UNCHANGED <<pc, csv, df, error, limits, app, kind, inp, data, out>>

\* ------------------------------------------------------------------ input files

CanonicalHeader ==
    <<<<"c","i","t","y">>, <<"a","r","e","a">>,
      <<"r","e","s","t","a","u","r","a","n","t">>,
      <<"a","v","g","_","r","a","t","i","n","g","s">>,
      <<"p","r","i","c","e">>,
      <<"d","e","l","i","v","e","r","y","_","t","i","m","e">>,
      <<"f","o","o","d","_","t","y","p","e">>>>

\* the same columns as a spreadsheet export writes them
PrettyHeader ==
    <<<<" ","C","i","t","y"," ">>, <<"A","R","E","A">>,
      <<"R","e","s","t","a","u","r","a","n","t","\t">>,
      <<"A","v","g"," ","R","a","t","i","n","g","s">>,
      <<"P","r","i","c","e">>,
      <<"D","e","l","i","v","e","r","y"," ","T","i","m","e">>,
      <<"F","o","o","d"," ","T","y","p","e">>>>

\* headers that lack required columns: another name, a hyphen, a double space
Headers ==
    {CanonicalHeader, PrettyHeader,
     [CanonicalHeader EXCEPT ![1] = <<"T","o","w","n">>],
     [PrettyHeader EXCEPT ![4] = <<"A","v","g","-","R","a","t","i","n","g","s">>,
                          ![7] = <<"F","o","o","d"," "," ","T","y","p","e">>],
     [CanonicalHeader EXCEPT ![5] = <<"p","r","i","c","e"," ","(","r","s",")">>,
                             ![6] = <<"e","t","a">>,
                             ![2] = <<"l","o","c","a","l","i","t","y">>]}

\* raw rows: city, area, restaurant, avg_ratings, price, delivery_time, food_type
Pool ==
    {<<"A", "x", "r1", 48, <<"2","4","9">>, <<"3","5"," ","m","i","n","s">>, "Veg">>,
     <<"B", "y", "r2", 30, <<"a","b","c">>, <<"N","/","A">>, "non">>,
     <<"A", "y", "r1", 48, <<"1","0","0">>, <<"1","2","0">>, "Veg">>,
     <<"A", NaS, "r3", 41, <<" ","2","4","9">>, <<"2","0","-","3","0"," ","m","i","n">>, NaS>>,
     <<"B", "x", "r2", NaN, <<"1","0","0">>, <<>>, "non">>}

\* the rows of the long files
BigPool == {r \in Pool : r[4] # NaN /\ ToNumeric(r[5]) # NaN}

MaxRows == 2
BigRep == 51

\* the sequences over S of length at most n
RECURSIVE SeqsUpTo(_, _)
SeqsUpTo(S, n) ==
    IF n = 0 THEN {<<>>}
    ELSE LET shorter == SeqsUpTo(S, n - 1)
         IN  shorter \cup {Append(s, x) : s \in {t \in shorter : Len(t) = n - 1}, x \in S}

\* s written n times over
RECURSIVE Repeat(_, _)
Repeat(s, n) == IF n = 0 THEN <<>> ELSE s \o Repeat(s, n - 1)

\* short files under the canonical header
ShortFiles ==
    {[header |-> CanonicalHeader, rows |-> b] : b \in SeqsUpTo(Pool, MaxRows)}

\* files of more than TopN rows
LongFiles ==
    {[header |-> CanonicalHeader, rows |-> Repeat(b, BigRep)] :
        b \in {t \in SeqsUpTo(BigPool, MaxRows) : Len(t) = MaxRows}}

\* one-row files under every header
HeaderFiles == {[header |-> h, rows |-> <<r>>] : h \in Headers, r \in Pool}

Files == ShortFiles \cup LongFiles \cup HeaderFiles

\* the rows of the files on which two calls are compared
SeenPool == {r \in Pool : r[4] # NaN /\ r[7] # NaS}

SeenFiles ==
    {[header |-> CanonicalHeader, rows |-> b] : b \in SeqsUpTo(SeenPool, MaxRows)}

Kinds == {"stable", "reversed"}

\* ------------------------------------------------------------------ specifications

Start(files, kinds) ==
    /\ pc = "start"
    /\ csv \in files
    /\ df = NoFrame
    /\ error = <<>>
    /\ limits = NoLimits
    /\ app = NoApp
    /\ kind \in kinds
    /\ inp = NoCall
    /\ data = NoFrame
    /\ out = NoCall
    /\ seen = NoCall

Init == Start(Files, Kinds)

Next == load \/ update_dashboard

Spec == Init /\ [][Next]_vars

\* the same program on fewer files, all of them short, so that the tie order of
\* the build plays no part, with one earlier call kept for comparison
InitSeen == Start(SeenFiles, {"stable"})

NextSeen == load \/ update_dashboard \/ Remember

SpecSeen == InitSeen /\ [][NextSeen]_vars

\* ------------------------------------------------------------------ properties

Called == inp # NoCall

\* row r of df satisfies every active predicate of the filter specification a
Satisfies(r, a) ==
    /\ a.city # None => Cell(df, r, "city") = a.city
    /\ a.area # None => Cell(df, r, "area") = a.area
    /\ a.food_type # None => Cell(df, r, "food_type") = a.food_type
    /\ a.rating_range # NoRange =>
        /\ Cell(df, r, "avg_ratings") >= a.rating_range[1]
        /\ Cell(df, r, "avg_ratings") <= a.rating_range[2]
    /\ a.price_range # NoRange =>
        /\ Cell(df, r, "price") # NaN
        /\ Cell(df, r, "price") >= a.price_range[1]
        /\ Cell(df, r, "price") <= a.price_range[2]

\* the number of places of the sequence s that hold x
Count(x, s) == Cardinality({i \in 1..Len(s) : s[i] = x})

\* the records t are a top-TopN ranking of the frame d by avg_ratings: of the right
\* length, in descending order, records of d each taken no more often than d holds
\* it, and no record left out that rates strictly higher than one taken
IsRanking(t, d) ==
    LET all == ToRecords(d)
    IN  /\ Len(t) = Min2(TopN, Len(d.rows))
        /\ \A i \in 1..(Len(t) - 1) : t[i].avg_ratings >= t[i + 1].avg_ratings
        /\ \A x \in Range(t) : Count(x, t) <= Count(x, all)
        /\ \A x \in Range(all) :
            Count(x, t) < Count(x, all) =>
                \A y \in Range(t) : x.avg_ratings <= y.avg_ratings

\* the options o are the sorted, duplicate-free list of the non-missing values of
\* column c in frame d
IsOptionList(o, d, c) ==
    /\ \A i \in 1..Len(o) : o[i].label = o[i].value
    /\ \A i \in 1..(Len(o) - 1) : StrLess(o[i].value, o[i + 1].value)
    /\ {o[i].value : i \in 1..Len(o)}
        = {d.rows[i].vals[Col(d, c)] : i \in 1..Len(d.rows)} \ {NaS}

\* the KPI cards k count the distinct values of the four columns over frame d
IsCounts(k, d) ==
    /\ Len(k) = 4
    /\ k[1].value = Cardinality({Cell(d, r, "city") : r \in Range(d.rows)} \ {NaS})
    /\ k[2].value = Cardinality({Cell(d, r, "area") : r \in Range(d.rows)} \ {NaS})
    /\ k[3].value = Cardinality({Cell(d, r, "restaurant") : r \in Range(d.rows)} \ {NaS})
    /\ k[4].value = Cardinality({Cell(d, r, "food_type") : r \in Range(d.rows)} \ {NaS})

\* C1: after every call the filtered subset holds a record of the dataset if and
\* only if the record satisfies every active predicate (equality on city, area and
\* food_type, closed intervals on avg_ratings and price, a null price never
\* satisfying an active price range), and it holds nothing else
C1_SubsetIsExactlyTheMatches ==
    Called =>
        /\ \A r \in Range(df.rows) : r \in Range(data.rows) <=> Satisfies(r, inp)
        /\ Range(data.rows) \subseteq Range(df.rows)
        /\ Len(data.rows) = Cardinality(Range(data.rows))

C1_Witness ==
    /\ Called
    /\ inp.price_range # NoRange
    /\ data.rows # <<>>
    /\ \E r \in Range(df.rows) :
        Cell(df, r, "price") = NaN /\ (inp.city # None => Cell(df, r, "city") = inp.city)

\* C2: on a non-empty dataset a call with all five inputs absent restricts nothing:
\* the subset is the whole dataset, the table is the whole dataset ranked by
\* avg_ratings descending and cut to 100 rows, and the four counts are the distinct
\* counts of the whole dataset
C2_AllAbsentIsWholeDataset ==
    (Called /\ Active(inp) = 0 /\ df.rows # <<>>) =>
        /\ data = df
        /\ IsRanking(out.table_data, df)
        /\ IsCounts(out.kpi_cards, df)

C2_Witness ==
    /\ Called
    /\ Active(inp) = 0
    /\ Len(df.rows) > TopN
    /\ Len(out.table_data) = TopN
    /\ NUnique(df, "area", NaS) > 1

\* C3: a call whose filter specification no record satisfies returns normally, with
\* empty area options, food_type options, KPI cards and table, and the app keeps
\* serving
C3_EmptyResultIsEmptyEverywhere ==
    (Called /\ \A r \in Range(df.rows) : ~Satisfies(r, inp)) =>
        /\ pc = "ready"
        /\ out.area_options = <<>>
        /\ out.food_options = <<>>
        /\ out.kpi_cards = <<>>
        /\ out.table_data = <<>>

C3_Witness ==
    /\ Called
    /\ inp.rating_range # NoRange
    /\ inp.rating_range[1] > inp.rating_range[2]
    /\ df.rows # <<>>
    /\ out.table_data = <<>>
    /\ out.kpi_cards = <<>>

\* C4 as stated: the table of a non-empty subset is the subset in descending
\* avg_ratings order with records of equal rating in their dataset order, cut to
\* its first 100 rows
C4_StableTies ==
    (Called /\ data.rows # <<>>) =>
        out.table_data = ToRecords(HeadRows(SortValues(data, "avg_ratings", "stable")))

\* C4 amended: the table of a non-empty subset is a ranking of the subset by
\* avg_ratings descending, of length min(100, size of the subset), holding only
\* records of the subset and leaving out none that rates strictly higher than one it
\* holds; the order among records of equal rating is not fixed
C4_RankedTopN ==
    (Called /\ data.rows # <<>>) => IsRanking(out.table_data, data)

C4_Witness ==
    /\ Called
    /\ Len(data.rows) > TopN
    /\ Len(out.table_data) = TopN
    /\ \E i \in 1..Len(out.table_data), r \in Range(data.rows) :
        Cell(data, r, "avg_ratings") < out.table_data[i].avg_ratings

\* C5: once load has completed no step changes the dataset df, whatever the calls
\* and their filter specifications
C5_DatasetNeverChanges == [][pc = "ready" => df' = df]_vars

C5_Witness ==
    /\ Called
    /\ data.rows = <<>>
    /\ df.rows # <<>>
    /\ Active(inp) = MaxActive

\* C6: a call with the inputs of an earlier call returns what the earlier call
\* returned and computes the same subset, whatever calls were made between them
C6_SameInputsSameResult ==
    (seen # NoCall /\ inp = seen.inp) => data = seen.data /\ out = seen.out

C6_Witness ==
    /\ seen # NoCall
    /\ seen.others
    /\ inp = seen.inp
    /\ data.rows # <<>>
    /\ Len(data.rows) < Len(df.rows)

\* filter specification g narrows filter specification f
Narrows(g, f) ==
    /\ f.city = None \/ g.city = f.city
    /\ f.area = None \/ g.area = f.area
    /\ f.food_type = None \/ g.food_type = f.food_type
    /\ \/ f.rating_range = NoRange
       \/ /\ g.rating_range # NoRange
          /\ g.rating_range[1] >= f.rating_range[1]
          /\ g.rating_range[2] <= f.rating_range[2]
    /\ \/ f.price_range = NoRange
       \/ /\ g.price_range # NoRange
          /\ g.price_range[1] >= f.price_range[1]
          /\ g.price_range[2] <= f.price_range[2]

\* C7: when the inputs of a call narrow those of an earlier call, its subset is a
\* sub-collection of the earlier subset and is not larger
C7_NarrowingShrinksSubset ==
    (seen # NoCall /\ Narrows(inp, seen.inp)) =>
        /\ Range(data.rows) \subseteq Range(seen.data.rows)
        /\ Len(data.rows) <= Len(seen.data.rows)

C7_Witness ==
    /\ seen # NoCall
    /\ Narrows(inp, seen.inp)
    /\ inp # seen.inp
    /\ data.rows # <<>>
    /\ Len(data.rows) < Len(seen.data.rows)
    /\ seen.inp.price_range # NoRange

\* the required columns absent from the file's header once its names are cleaned
AbsentFrom(file) ==
    {c \in Range(required_cols) :
        \A i \in 1..Len(file.header) : CleanName(file.header[i]) # c}

\* C8: load of a file that lacks required columns ends in the schema error, which
\* lists exactly the missing required columns, with no cell normalised, no row
\* dropped, no app constructed and no call served, and nothing happens after it;
\* load of a file that has them all ends in no schema error
C8_SchemaFailsFast ==
    [][/\ pc = "start" =>
            IF AbsentFrom(csv) # {}
            THEN /\ pc' = "schema_error"
                 /\ Range(error') = AbsentFrom(csv)
                 /\ Len(error') = Cardinality(AbsentFrom(csv))
                 /\ [i \in 1..Len(df'.rows) |-> df'.rows[i].vals] = csv.rows
                 /\ app' = NoApp /\ limits' = NoLimits /\ inp' = NoCall
            ELSE pc' # "schema_error" /\ error' = <<>>
       /\ pc = "schema_error" => vars' = vars
      ]_vars

C8_Witness ==
    /\ pc = "schema_error"
    /\ Len(error) > 1
    /\ "city" \in Range(df.columns)

\* C9: for a non-empty subset the area options and the food_type options are the
\* sorted, duplicate-free lists of the non-null values of the subset, and the four
\* counts are those of the subset
C9_OptionsAndCountsFromSubset ==
    (Called /\ data.rows # <<>>) =>
        /\ IsOptionList(out.area_options, data, "area")
        /\ IsOptionList(out.food_options, data, "food_type")
        /\ IsCounts(out.kpi_cards, data)

C9_Witness ==
    /\ Called
    /\ inp.city = "A"
    /\ data.rows # <<>>
    /\ \E r \in Range(df.rows) :
        /\ Cell(df, r, "area") # NaS
        /\ \A i \in 1..Len(out.area_options) : out.area_options[i].value # Cell(df, r, "area")
    /\ out.kpi_cards[3].value < NUnique(df, "restaurant", NaS)

\* C10: whenever the area input holds a value the area options returned are that
\* one value when the subset is non-empty and empty when it is empty, and likewise
\* for the food_type input and the food_type options
C10_SelectionNarrowsOwnOptions ==
    Called =>
        /\ inp.area # None =>
            out.area_options =
                IF data.rows = <<>> THEN <<>>
                ELSE <<[label |-> inp.area, value |-> inp.area]>>
        /\ inp.food_type # None =>
            out.food_options =
                IF data.rows = <<>> THEN <<>>
                ELSE <<[label |-> inp.food_type, value |-> inp.food_type]>>

C10_Witness ==
    /\ Called
    /\ inp.area = "x"
    /\ inp.city = "A"
    /\ data.rows # <<>>
    /\ \E r \in Range(df.rows) : Cell(df, r, "city") = "A" /\ Cell(df, r, "area") = "y"

====
